---- MODULE Spec2Model ----
(***************************************************************************)
(* Price-refresh pipeline of pc-configurator: the batch orchestrator       *)
(* backend/update_all_prices.py (main, get_html, update_price) over the    *)
(* products table of backend/models.py, its price text functions and       *)
(* extract_price, and the single-product jobs next to it: the endpoint     *)
(* refresh_product_price of backend/main.py and backend/step3_update_one.  *)
(*                                                                         *)
(* A document is abstracted to what the batch reads of it: whether it      *)
(* holds the marker "Prodej skončil" and the Decimal extract_price returns *)
(* for it (in hundredths of a crown, None when no tier yields a price).    *)
(***************************************************************************)
EXTENDS Integers, Naturals, Sequences, FiniteSets, TLC

\* ---------------------------------------------------------------- bounds
\* Largest catalog, and the number of product iterations over all the runs.
NumProducts == 2
MaxWork == 3

\* ------------------------------------------------------- program constants
\* Python's None for the Optional[int] / Optional[str] values of the code.
None == -1
\* get_html(..., retries: int = 3, ...); main never overrides it.
Retries == 3
\* new_price = 1 : the "ended" sentinel written for 404 / "Prodej skončil".
TerminalPrice == 1

Products == 1..NumProducts

\* Initial prices of the rows (old_price starts NULL, updated_at 0).
InitPrices == {None, 1, 2}

\* args.delay the runs are started with (seconds; argparse default 1.8). The
\* batch only hands it to time.sleep; get_html is run with several pauses in
\* SpecFetch.
Delays == {1}

\* Decimal values extract_price may return, in hundredths: 1.00, 2.49, 2.50.
DecValues == {100, 249, 250}

\* r.text of a response: falsy (empty / None) or a document.
\* broken: a document on which extract_price raises (its parser fails).
NoText == [empty |-> TRUE, discontinued |-> FALSE, dec |-> None, broken |-> FALSE]
Docs ==
    { [empty |-> FALSE, discontinued |-> FALSE, dec |-> d, broken |-> FALSE] :
        d \in DecValues \cup {None} }
    \cup { [empty |-> FALSE, discontinued |-> TRUE, dec |-> d, broken |-> FALSE] :
             d \in {None, 250} }
    \cup { [empty |-> FALSE, discontinued |-> FALSE, dec |-> None, broken |-> TRUE] }

\* What one sess.get(...) can produce: an HTTP response or a transport error.
HttpResponses ==
    { [kind |-> "http", status |-> 200, text |-> t] : t \in Docs \cup {NoText} }
    \cup { [kind |-> "http", status |-> 404, text |-> t] :
             t \in {NoText, [empty |-> FALSE, discontinued |-> FALSE, dec |-> 250,
                              broken |-> FALSE]} }
    \cup { [kind |-> "http", status |-> s, text |-> NoText] : s \in {403, 429, 503} }
TransportError == [kind |-> "error", status |-> None, text |-> NoText]
\* No request made yet.
NoResponse == [kind |-> "none", status |-> None, text |-> NoText]
Responses == HttpResponses \cup {TransportError}

VARIABLES
    db,           \* products table: id -> [price, old_price, updated_at]
    now,          \* database clock behind NOW()
    work,         \* product iterations started over all the runs
    pc,           \* position of main: "idle", "loop", "fetch", "decide", "done"
    args,         \* [dry_run, delay] of the current run
    rows,         \* rows = cur.fetchall(): <<[id, price]>> in id order
    total, processed, changed, errors, errors_403,
    i,            \* get_html: attempts made so far in the current call
    last_status,  \* get_html: last_status (the status it returns)
    html,         \* get_html: the document it returns (NoText for None)
    resp,         \* history: the response of the most recent attempt
    log,          \* history: requests and sleeps of the current get_html call
    outcome,      \* history: [decision, extracted, write] of the last product
    writes,       \* history: update_price calls issued per product in this run
    tracked,      \* history: the product whose results are remembered
    prev,         \* history: the result of tracked when it was last processed
    text,         \* the text handed to the price parsing functions
    parsed,       \* what normalize_candidate / best_price_from_text made of it
    amount,       \* the Decimal handed to as_kc_int, in hundredths
    rounded,      \* what as_kc_int returned for it
    page,         \* the parsed document handed to extract_price, tier by tier
    extracted,    \* what extract_price and each of its tiers made of it
    job           \* history: the last single-product job (endpoint or step3)

vars == <<db, now, work, pc, args, rows, total, processed, changed, errors,
          errors_403, i, last_status, html, resp, log, outcome, writes, tracked,
          prev, text, parsed, amount, rounded, page, extracted, job>>

\* The variables of the batch and of get_html, and those of the pure functions.
batchVars == <<db, now, work, pc, args, rows, total, processed, changed, errors,
               errors_403, i, last_status, html, resp, log, outcome, writes,
               tracked, prev>>
pureVars == <<text, parsed, amount, rounded, page, extracted>>

\* ------------------------------------------------------------- pure parts
\* Faulty variant: to_integral_value(ROUND_HALF_EVEN), banker's rounding.
as_kc_intHalfEven(dec) ==
    LET q == dec \div 100
        r == dec % 100
    IN  IF r > 50 \/ (r = 50 /\ q % 2 = 1) THEN q + 1 ELSE q

\* as_kc_int: Decimal.to_integral_value(ROUND_HALF_UP), dec >= 0 in hundredths.
as_kc_int(dec) == (dec + 50) \div 100

\* is_discontinued(html): "Prodej skončil" in html (False for falsy html).
is_discontinued(h) == (~h.empty) /\ h.discontinued

\* extract_price(html, selector): the first tier's best price, or None.
extract_price(h) == h.dec

\* extract_price(html, selector) raises instead of returning.
ExtractRaises(h) == h.broken

\* r.ok of curl_cffi: raise_for_status() raises unless 200 <= status < 400.
RaisesForStatus(status) == status >= 400

\* --------------------------------------------------- price text functions
\* A str is a sequence of one-character strings; "nbsp", "nnbsp" and "thinsp"
\* stand for U+00A0, U+202F and U+2009, "ccaron" / "Ccaron" for the Czech
\* letter of "Kc" with caron, "euro" for the euro sign. A Decimal is its value
\* in hundredths.
Digits == {"0", "1", "2", "3", "4", "5", "6", "7", "8", "9"}
Letters == {"K", "k", "C", "c", "Z", "z", "E", "e", "U", "u", "R", "r",
            "ccaron", "Ccaron"}

\* int(c) of a digit character.
DigitVal(c) ==
    CASE c = "0" -> 0 [] c = "1" -> 1 [] c = "2" -> 2 [] c = "3" -> 3
      [] c = "4" -> 4 [] c = "5" -> 5 [] c = "6" -> 6 [] c = "7" -> 7
      [] c = "8" -> 8 [] c = "9" -> 9

\* \w of the re module on the characters above.
IsWordChar(c) == c \in Digits \cup Letters

\* \b at index p of s: between s[p - 1] and s[p], the ends counting as non-word.
IsBoundary(s, p) ==
    LET W(k) == k \in 1..Len(s) /\ IsWordChar(s[k])
    IN  W(p - 1) # W(p)

\* str.upper() on the letters above, for re.IGNORECASE.
Upper(c) ==
    CASE c = "k" -> "K" [] c = "c" -> "C" [] c = "z" -> "Z" [] c = "e" -> "E"
      [] c = "u" -> "U" [] c = "r" -> "R" [] c = "ccaron" -> "Ccaron"
      [] OTHER -> c

\* The value of a run of digit characters ("" gives 0).
RECURSIVE DigitsValue(_)
DigitsValue(ds) ==
    IF ds = <<>> THEN 0
    ELSE 10 * DigitsValue(SubSeq(ds, 1, Len(ds) - 1)) + DigitVal(ds[Len(ds)])

\* re.sub(r"[...]", "", s) for a character class.
Without(s, class) == SelectSeq(s, LAMBDA c : c \notin class)

\* normalize_spaces(s): the three special spaces become " ".
normalize_spaces(s) ==
    [k \in 1..Len(s) |-> IF s[k] \in {"nbsp", "nnbsp", "thinsp"} THEN " " ELSE s[k]]

\* str.strip() of a str whose only whitespace is " ".
RECURSIVE StripLeft(_)
StripLeft(s) ==
    IF s # <<>> /\ Head(s) = " " THEN StripLeft(Tail(s)) ELSE s
RECURSIVE StripRight(_)
StripRight(s) ==
    IF s # <<>> /\ s[Len(s)] = " " THEN StripRight(SubSeq(s, 1, Len(s) - 1)) ELSE s
Strip(s) == StripRight(StripLeft(s))

\* \s* from index q: the index of the first character that is not a space.
RECURSIVE SkipSpaces(_, _)
SkipSpaces(s, q) ==
    IF q <= Len(s) /\ s[q] = " " THEN SkipSpaces(s, q + 1) ELSE q

\* r",\s*-\b" matched at index p: the index after the match, 0 for no match.
\* "-" is not a word character, so \b asks for a word character after it.
CommaDashEnd(s, p) ==
    IF s[p] # "," THEN 0
    ELSE LET q == SkipSpaces(s, p + 1)
         IN  IF q <= Len(s) /\ s[q] = "-" /\ IsBoundary(s, q + 1)
             THEN q + 1 ELSE 0

\* re.sub(r",\s*-\b", "", s), from index p on.
RECURSIVE RemoveCommaDashFrom(_, _)
RemoveCommaDashFrom(s, p) ==
    IF p > Len(s) THEN <<>>
    ELSE IF CommaDashEnd(s, p) # 0 THEN RemoveCommaDashFrom(s, CommaDashEnd(s, p))
    ELSE <<s[p]>> \o RemoveCommaDashFrom(s, p + 1)
RemoveCommaDash(s) == RemoveCommaDashFrom(s, 1)

\* The alternatives of r"\b(Kč|CZK|EUR|€|\$)\b", in their order.
CurrencyWords ==
    << <<"K", "ccaron">>, <<"C", "Z", "K">>, <<"E", "U", "R">>, <<"euro">>, <<"$">> >>

\* Word w matched at index p of s, case-insensitively, between two \b.
WordAt(s, p, w) ==
    /\ p + Len(w) - 1 <= Len(s)
    /\ \A k \in 1..Len(w) : Upper(s[p + k - 1]) = Upper(w[k])
    /\ IsBoundary(s, p)
    /\ IsBoundary(s, p + Len(w))

\* The currency pattern matched at index p: the index after the match, or 0.
CurrencyEnd(s, p) ==
    LET hits == { n \in 1..Len(CurrencyWords) : WordAt(s, p, CurrencyWords[n]) }
    IN  IF hits = {} THEN 0
        ELSE LET n == CHOOSE m \in hits : \A o \in hits : m <= o
             IN  p + Len(CurrencyWords[n])

\* re.sub(r"\b(Kč|CZK|EUR|€|\$)\b", "", s, flags=re.IGNORECASE), from index p on.
RECURSIVE RemoveCurrencyFrom(_, _)
RemoveCurrencyFrom(s, p) ==
    IF p > Len(s) THEN <<>>
    ELSE IF CurrencyEnd(s, p) # 0 THEN RemoveCurrencyFrom(s, CurrencyEnd(s, p))
    ELSE <<s[p]>> \o RemoveCurrencyFrom(s, p + 1)
RemoveCurrency(s) == RemoveCurrencyFrom(s, 1)

\* The class [ \.   '] of PRICE_PATTERN and normalize_candidate.
GroupSeps == {" ", ".", "nbsp", "nnbsp", "thinsp", "'"}

\* \d+ at index p: the length of the run of digits that starts there.
RECURSIVE DigitRun(_, _)
DigitRun(s, p) ==
    IF p <= Len(s) /\ s[p] \in Digits THEN 1 + DigitRun(s, p + 1) ELSE 0

\* [ \.   ']\d{3} at index q.
GroupAt(s, q) ==
    /\ q + 3 <= Len(s)
    /\ s[q] \in GroupSeps
    /\ \A k \in 1..3 : s[q + k] \in Digits

\* (?:[...]\d{3})* from index q, greedy: the index after the last group.
RECURSIVE GroupsEnd(_, _)
GroupsEnd(s, q) == IF GroupAt(s, q) THEN GroupsEnd(s, q + 4) ELSE q

\* (?:[.,]\d{1,2})? from index q, greedy: the index after it.
DecimalTailEnd(s, q) ==
    IF q + 1 <= Len(s) /\ s[q] \in {".", ","} /\ s[q + 1] \in Digits
    THEN IF q + 2 <= Len(s) /\ s[q + 2] \in Digits THEN q + 3 ELSE q + 2
    ELSE q

\* PRICE_PATTERN matched at index p: the index after the match, 0 for no
\* match. First alternative: 1 to 3 digits, one or more groups, optional
\* decimals; it needs the run of digits at p to be at most 3 long, because a
\* shorter prefix of the run is followed by a digit and not by a separator.
\* Second alternative: the whole run of digits, optional decimals.
PriceEnd(s, p) ==
    LET run == DigitRun(s, p)
    IN  IF run = 0 THEN 0
        ELSE IF run <= 3 /\ GroupAt(s, p + run)
             THEN DecimalTailEnd(s, GroupsEnd(s, p + run))
             ELSE DecimalTailEnd(s, p + run)

\* PRICE_PATTERN.findall(s), from index p on: the matches, left to right.
RECURSIVE FindAllFrom(_, _)
FindAllFrom(s, p) ==
    IF p > Len(s) THEN <<>>
    ELSE IF PriceEnd(s, p) # 0
         THEN <<SubSeq(s, p, PriceEnd(s, p) - 1)>> \o FindAllFrom(s, PriceEnd(s, p))
         ELSE FindAllFrom(s, p + 1)

\* find_price_candidates(text).
find_price_candidates(t) ==
    IF t = <<>> THEN <<>>
    ELSE FindAllFrom(RemoveCurrency(RemoveCommaDash(normalize_spaces(t))), 1)

\* What a call gives: a Decimal, None, or an exception.
Value(v) == [kind |-> "value", val |-> v]
NoneResult == [kind |-> "none", val |-> 0]
Raised == [kind |-> "raise", val |-> 0]

\* The index of the "." of a numeric string, 0 when it has none.
PointPos(s) ==
    IF \E k \in 1..Len(s) : s[k] = "." THEN CHOOSE k \in 1..Len(s) : s[k] = "." ELSE 0

\* decimal.Decimal(str) on the characters above: an optional "-", digits with
\* at most one "." and at least one digit, else InvalidOperation. The callers
\* hand it at most two digits after the "." (raw[dec_pos + 1:] is 1 or 2 long).
Decimal(str) ==
    LET neg == str # <<>> /\ Head(str) = "-"
        body == IF neg THEN Tail(str) ELSE str
        dot == PointPos(body)
        ip == IF dot = 0 THEN body ELSE SubSeq(body, 1, dot - 1)
        fp == IF dot = 0 THEN <<>> ELSE SubSeq(body, dot + 1, Len(body))
        ok == /\ \A k \in 1..Len(ip) : ip[k] \in Digits
              /\ \A k \in 1..Len(fp) : fp[k] \in Digits
              /\ Len(ip) + Len(fp) >= 1
        frac == IF Len(fp) = 1 THEN 10 * DigitsValue(fp) ELSE DigitsValue(fp)
        mag == 100 * DigitsValue(ip) + frac
    IN  IF ~ok THEN Raised
        ELSE Value(IF neg THEN 0 - mag ELSE mag)

\* The rightmost index of a character of class in s, 0 when there is none
\* (max(raw.rfind("."), raw.rfind(",")) + 1).
LastIndexOf(s, class) ==
    LET hits == { k \in 1..Len(s) : s[k] \in class }
    IN  IF hits = {} THEN 0 ELSE CHOOSE k \in hits : \A m \in hits : m <= k

\* Faulty variant: only one digit after the separator makes it a decimal point.
IsDecimalTailOneOnly(n) == n = 1

\* len(raw) - dec_pos - 1 in (1, 2)
IsDecimalTail(n) == n \in {1, 2}

\* normalize_candidate(s).
normalize_candidate(s) ==
    IF s = <<>> THEN NoneResult
    ELSE
      LET raw == RemoveCommaDash(Strip(normalize_spaces(s)))
          dec_pos == LastIndexOf(raw, {".", ","})
      IN  IF dec_pos # 0 /\ IsDecimalTail(Len(raw) - dec_pos)
          THEN LET int_part == Without(SubSeq(raw, 1, dec_pos - 1), GroupSeps)
                   dec_part == SelectSeq(SubSeq(raw, dec_pos + 1, Len(raw)),
                                         LAMBDA c : c \in Digits)
               IN  IF int_part = <<>> THEN NoneResult
                   ELSE Decimal(int_part \o <<".">> \o dec_part)
          ELSE LET int_only == Without(raw, GroupSeps \cup {","})
               IN  IF int_only = <<>> THEN NoneResult
                   ELSE Decimal(int_only)

\* v >= 100 of best_price_from_text, in hundredths.
PriceFloor == 10000

\* max(vals) of a non-empty list of Decimals.
MaxOf(vals) ==
    CHOOSE v \in { vals[k] : k \in 1..Len(vals) } :
        \A k \in 1..Len(vals) : vals[k] <= v

\* Faulty variant: the first candidate is returned.
PickBestFirst(vals) ==
    IF vals = <<>> THEN NoneResult ELSE Value(vals[1])

\* The choice of best_price_from_text among vals: None for no value, else the
\* largest value >= 100 when there is one, else the largest value.
PickBest(vals) ==
    IF vals = <<>> THEN NoneResult
    ELSE LET big == SelectSeq(vals, LAMBDA v : v >= PriceFloor)
         IN  IF big # <<>> THEN Value(MaxOf(big)) ELSE Value(MaxOf(vals))

\* The list vals of best_price_from_text: the candidates' values, None dropped.
CandidateValues(t) ==
    LET toks == find_price_candidates(t)
        res == [k \in 1..Len(toks) |-> normalize_candidate(toks[k])]
        kept == SelectSeq(res, LAMBDA r : r.kind = "value")
    IN  [k \in 1..Len(kept) |-> kept[k].val]

\* best_price_from_text(text); an exception of normalize_candidate passes through.
best_price_from_text(t) ==
    LET toks == find_price_candidates(t)
    IN  IF \E k \in 1..Len(toks) : normalize_candidate(toks[k]).kind = "raise"
        THEN Raised
        ELSE PickBest(CandidateValues(t))

\* What soup.select_one / soup.find gave for a tier: no element, or its text.
NoElement == [found |-> FALSE, text |-> <<>>]
Element(t) == [found |-> TRUE, text |-> t]

\* One of the tiers 1 to 3: best_price_from_text of the element's text, None
\* without an element (or without a selector, or with an empty content).
TierPrice(slot) ==
    IF slot.found /\ slot.text # <<>> THEN best_price_from_text(slot.text)
    ELSE NoneResult

\* Faulty variant: each element's value replaces the one before.
KeepLatest(best, v) == v

\* best = v if best is None else max(best, v)
KeepBest(best, v) ==
    IF best.kind = "none" THEN v
    ELSE IF v.val > best.val THEN v ELSE best

\* Tier 4: the loop over the texts of the class / id "price" elements.
RECURSIVE FallbackFrom(_, _)
FallbackFrom(texts, best) ==
    IF texts = <<>> THEN best
    ELSE LET v == best_price_from_text(Head(texts))
         IN  IF v.kind = "raise" THEN Raised
             ELSE FallbackFrom(Tail(texts),
                               IF v.kind = "none" THEN best ELSE KeepBest(best, v))
FallbackPrice(texts) == FallbackFrom(texts, NoneResult)

\* What each tier yields for a page, in the order extract_price tries them.
TierResults(pg) ==
    <<TierPrice(pg.selector), TierPrice(pg.meta), TierPrice(pg.itemprop),
      FallbackPrice(pg.priced)>>

\* Faulty variant: the largest value of all the tiers is returned.
LargestHit(rs) ==
    LET hits == { k \in 1..Len(rs) : rs[k].kind = "value" }
    IN  IF hits = {} THEN NoneResult
        ELSE rs[CHOOSE k \in hits : \A m \in hits : rs[m].val <= rs[k].val]

\* `if p is not None: return p` tier after tier: the first tier with a value
\* (an exception in a tier that is reached passes through).
FirstHit(rs) ==
    LET hits == { k \in 1..Len(rs) : rs[k].kind # "none" }
    IN  IF hits = {} THEN NoneResult
        ELSE rs[CHOOSE k \in hits : \A m \in hits : k <= m]

\* extract_price(html, selector) on the parsed page.
extract_price_of(pg) == FirstHit(TierResults(pg))

\* ---------------------------------------------------------------- get_html
\* Faulty variant: the exception raised by raise_for_status() carries no response.
AttemptStatusNoResponse(r) ==
    IF r.kind = "http" /\ (r.status < 400 \/ r.status \in {403, 404, 429})
    THEN r.status ELSE None

\* last_status after one attempt: r.status_code, or for a caught exception
\* getattr(getattr(e, "response", None), "status_code", None).
AttemptStatus(r) == IF r.kind = "http" THEN r.status ELSE None

\* Faulty variant: a 404 is retried like any other error status.
AttemptReturnsOnly200(r) == r.kind = "http" /\ r.status = 200 /\ ~r.text.empty

\* The attempt ends the call: 200 with a non-empty body, or 404.
AttemptReturns(r) ==
    /\ r.kind = "http"
    /\ \/ r.status = 200 /\ ~r.text.empty
       \/ r.status = 404

\* The document returned with it: r.text for the 200, None for the 404.
AttemptHtml(r) ==
    IF r.kind = "http" /\ r.status = 200 /\ ~r.text.empty THEN r.text ELSE NoText

\* time.sleep(pause * (i + 1)) follows the attempt: the 403/429 branch, or
\* the except branch (transport error, or raise_for_status() raising).
AttemptSleeps(r) ==
    /\ ~AttemptReturns(r)
    /\ \/ r.kind = "error"
       \/ r.status \in {403, 429}
       \/ RaisesForStatus(r.status)

\* Faulty variant: the same pause after every attempt.
BackoffDelayFlat(pause, n) == pause

\* The seconds slept: pause * (i + 1), n = i + 1 the attempt's number.
BackoffDelay(pause, n) == pause * n

\* The for loop goes on to another attempt after attempt number n.
LoopContinues(r, n) == ~AttemptReturns(r) /\ n < Retries

\* What the attempt adds to the history of the call.
AttemptEvents(r, n, pause) ==
    <<[ev |-> "req", n |-> n, v |-> AttemptStatus(r)]>>
    \o (IF AttemptSleeps(r)
         THEN <<[ev |-> "sleep", n |-> n, v |-> BackoffDelay(pause, n)]>>
         ELSE <<>>)

\* One iteration of `for i in range(retries)`, its sleep included, and the
\* return after the loop when it was the last one.
AttemptCore(r) ==
    /\ pc = "fetch"
    /\ i < Retries
    /\ i' = i + 1
    /\ resp' = r
    /\ last_status' = AttemptStatus(r)
    /\ html' = AttemptHtml(r)
    /\ pc' = IF LoopContinues(r, i + 1) THEN "fetch" ELSE "decide"

\* The locals of get_html at its entry.
EnterGetHtml ==
    /\ i' = 0
    /\ last_status' = None
    /\ html' = NoText
    /\ resp' = NoResponse
    /\ log' = <<>>

\* -------------------------------------------------------------------- main
\* Faulty variant: a fetch without a document is taken for a 404.
BranchNoHtmlTerminal(h, status) ==
    IF status = 404 \/ h.empty THEN "404"
    ELSE IF is_discontinued(h) THEN "discontinued"
    ELSE IF extract_price(h) = None THEN "noprice"
    ELSE "price"

\* Faulty variant: the marker is looked for only when no price was extracted.
BranchPriceFirst(h, status) ==
    IF status = 404 THEN "404"
    ELSE IF h.empty THEN "nohtml"
    ELSE IF extract_price(h) # None THEN "price"
    ELSE IF is_discontinued(h) THEN "discontinued"
    ELSE "noprice"

\* The branch of the loop body taken for the result (html, status).
Branch(h, status) ==
    IF status = 404 THEN "404"
    ELSE IF ~h.empty /\ is_discontinued(h) THEN "discontinued"
    ELSE IF h.empty THEN "nohtml"
    ELSE IF extract_price(h) = None THEN "noprice"
    ELSE "price"

\* new_price of the branch (None where the branch computes none).
NewPrice(h, status) ==
    CASE Branch(h, status) \in {"404", "discontinued"} -> TerminalPrice
      [] Branch(h, status) = "price" -> as_kc_int(extract_price(h))
      [] OTHER -> None

\* Faulty variant: the comparison never succeeds (an int compared with a Decimal string).
SamePriceNever(old_price, new_price) == FALSE

\* `old_price is not None and int(old_price) == new_price`
SamePrice(old_price, new_price) == old_price # None /\ old_price = new_price

\* Faulty variant: the terminal branches do not look at the stored price.
DecisionTerminalUnchecked(h, status, old_price) ==
    CASE Branch(h, status) \in {"404", "discontinued"} -> "SetTerminal"
      [] Branch(h, status) = "price" ->
            IF SamePrice(old_price, NewPrice(h, status)) THEN "NoChange" ELSE "SetPrice"
      [] OTHER -> "Defer"

\* The reconciliation decision the branch amounts to.
Decision(h, status, old_price) ==
    CASE Branch(h, status) \in {"404", "discontinued"} ->
            IF SamePrice(old_price, TerminalPrice) THEN "NoChange" ELSE "SetTerminal"
      [] Branch(h, status) = "price" ->
            IF SamePrice(old_price, NewPrice(h, status)) THEN "NoChange" ELSE "SetPrice"
      [] OTHER -> "Defer"

\* Faulty variant: --dry-run is not looked at.
IssuesWriteIgnoringDryRun(d, dry_run) == d \in {"SetTerminal", "SetPrice"}

\* Faulty variant: the unchanged price is written again.
IssuesWriteAlsoNoChange(d, dry_run) ==
    d \in {"SetTerminal", "SetPrice", "NoChange"} /\ ~dry_run

\* update_price is reached: a change is decided and the run is not --dry-run.
IssuesWrite(d, dry_run) == d \in {"SetTerminal", "SetPrice"} /\ ~dry_run

\* Faulty variant: the UPDATE never sets old_price.
update_priceNoOldPrice(table, prod_id, new_price, prev_price, ts) ==
    [table EXCEPT ![prod_id] =
        [price |-> new_price, old_price |-> @.old_price, updated_at |-> ts]]

\* Faulty variant: the price is written alone, updated_at and old_price in a
\* second statement that an interruption keeps from running.
update_priceTorn(table, prod_id, new_price, prev_price, ts) ==
    [table EXCEPT ![prod_id] =
        [price |-> new_price, old_price |-> @.old_price, updated_at |-> @.updated_at]]

\* update_price: the UPDATE with or without old_price, updated_at = NOW().
update_price(table, prod_id, new_price, prev_price, ts) ==
    IF prev_price # None
    THEN [table EXCEPT ![prod_id] =
              [price |-> new_price, old_price |-> prev_price, updated_at |-> ts]]
    ELSE [table EXCEPT ![prod_id] =
              [price |-> new_price, old_price |-> @.old_price, updated_at |-> ts]]

\* The counter the product is booked on: "changed", "errors", "403" or "none".
Counted(h, status, d, issued, dbFails) ==
    IF issued THEN (IF dbFails THEN "errors" ELSE "changed")
    ELSE IF d # "Defer" THEN "none"
    ELSE IF Branch(h, status) = "nohtml" /\ status = 403 THEN "403"
    ELSE "errors"

\* Faulty variant: changed += 1 stands before the UPDATE, so a product whose
\* body ends in the except clause is booked on changed as well.
IncrementChangedFirst(counted, name) ==
    IF counted = name \/ (name = "changed" /\ counted = "errors") THEN 1 ELSE 0

\* What the loop body adds to counter `name` for a product booked on `counted`.
Increment(counted, name) == IF counted = name THEN 1 ELSE 0

\* Faulty variant: no ORDER BY, the rows come back in descending id order.
SelectRowsUnordered(table) ==
    [k \in 1..Cardinality(DOMAIN table) |->
        [id |-> Cardinality(DOMAIN table) + 1 - k,
         price |-> table[Cardinality(DOMAIN table) + 1 - k].price]]

\* SELECT id, url, price FROM products WHERE url ... ORDER BY id (ids 1..n).
SelectRows(table) ==
    [k \in 1..Cardinality(DOMAIN table) |-> [id |-> k, price |-> table[k].price]]

\* The way the loop body is left: one of its `continue` branches, its end
\* after the update / dry-run print, or the except clause.
Path(h, status, d, raised) ==
    IF raised THEN "except"
    ELSE IF Branch(h, status) # "price" THEN Branch(h, status)
    ELSE IF d = "NoChange" THEN "nochange"
    ELSE "update"

\* Faulty variant: the except clause does not sleep.
PathsWithSleepButExcept ==
    {"404", "discontinued", "nohtml", "noprice", "nochange", "update"}

\* The ways out of the loop body that end with time.sleep(args.delay):
\* lines 296, 312, 337, 345, 352, 362 and 367.
PathsWithSleep ==
    {"404", "discontinued", "nohtml", "noprice", "nochange", "update", "except"}

\* time.sleep(args.delay) calls made on the way out of the loop body.
InterProductSleeps(path) == IF path \in PathsWithSleep THEN 1 ELSE 0

\* Faulty variant: the exception leaves the loop and ends the run.
AfterExceptionAbort == "crashed"

\* `except Exception` is inside the for loop: the loop goes on.
AfterException == "loop"

\* SELECT id, url, price ... ORDER BY id; total = len(rows); counters at 0.
StartRun(dry, delay) ==
    /\ pc \in {"idle", "done"}
    /\ work + Cardinality(DOMAIN db) <= MaxWork
    /\ args' = [dry_run |-> dry, delay |-> delay]
    /\ rows' = SelectRows(db)
    /\ total' = Cardinality(DOMAIN db)
    /\ processed' = 0
    /\ changed' = 0
    /\ errors' = 0
    /\ errors_403' = 0
    /\ writes' = [p \in DOMAIN db |-> 0]
    /\ pc' = "loop"
    /\ UNCHANGED <<pureVars, job>>
    /\ UNCHANGED <<db, now, work, i, last_status, html, resp, log, outcome, tracked, prev>>

\* Head of `for prod_id, url, old_price in rows`: processed += 1, get_html called.
BeginProduct ==
    /\ pc = "loop"
    /\ processed < total
    /\ processed' = processed + 1
    /\ work' = work + 1
    /\ EnterGetHtml
    /\ pc' = "fetch"
    /\ UNCHANGED <<pureVars, job>>
    /\ UNCHANGED <<db, now, args, rows, total, changed, errors, errors_403,
                   outcome, writes, tracked, prev>>

\* One attempt of get_html inside the batch.
Attempt(r) ==
    /\ AttemptCore(r)
    /\ UNCHANGED <<pureVars, job>>
    /\ UNCHANGED <<db, now, work, args, rows, total, processed, changed, errors,
                   errors_403, log, outcome, writes, tracked, prev>>

\* The loop body after get_html returned: decision, write, counters.
\* dbFails: update_price raises (caught by `except Exception`).
Decide(dbFails) ==
    /\ pc = "decide"
    /\ rows # <<>>
    /\ LET row == rows[processed]
           d == Decision(html, last_status, row.price)
           issued == IssuesWrite(d, args.dry_run)
           done == issued /\ ~dbFails
           counted == Counted(html, last_status, d, issued, dbFails)
       IN /\ ~(Branch(html, last_status) \in {"noprice", "price"} /\ ExtractRaises(html))
          /\ dbFails => issued
          /\ db' = IF done
                   THEN update_price(db, row.id, NewPrice(html, last_status),
                                     row.price, now + 1)
                   ELSE db
          /\ now' = IF done THEN now + 1 ELSE now
          /\ changed' = changed + Increment(counted, "changed")
          /\ errors' = errors + Increment(counted, "errors")
          /\ errors_403' = errors_403 + Increment(counted, "403")
          /\ writes' = IF issued THEN [writes EXCEPT ![row.id] = @ + 1] ELSE writes
          /\ outcome' = [decision |-> d,
                         extracted |-> Branch(html, last_status) \in {"noprice", "price"},
                         write |-> IF ~issued THEN "none"
                                   ELSE IF dbFails THEN "failed" ELSE "ok",
                         raised |-> issued /\ dbFails,
                         slept |-> InterProductSleeps(
                                      Path(html, last_status, d, issued /\ dbFails))]
          /\ prev' = IF row.id # tracked THEN prev
                     ELSE [seen |-> TRUE, html |-> html, status |-> last_status,
                           applied |-> ~args.dry_run /\ ~(issued /\ dbFails),
                           same |-> /\ prev.seen /\ prev.applied
                                    /\ prev.html = html /\ prev.status = last_status,
                           dry |-> args.dry_run,
                           decision |-> d,
                           counted |-> counted]
          /\ pc' = IF issued /\ dbFails THEN AfterException ELSE "loop"
    /\ UNCHANGED <<pureVars, job>>
    /\ UNCHANGED <<work, args, rows, total, processed, i, last_status, html,
                   resp, log, tracked>>

\* The loop body when extract_price (BeautifulSoup, lxml) raises on the
\* document: the except clause counts an error, nothing is written.
DecideRaises ==
    /\ pc = "decide"
    /\ rows # <<>>
    /\ Branch(html, last_status) \in {"noprice", "price"}
    /\ ExtractRaises(html)
    /\ errors' = errors + 1
    /\ outcome' = [decision |-> "Defer", extracted |-> TRUE, write |-> "none",
                   raised |-> TRUE,
                   slept |-> InterProductSleeps(Path(html, last_status, "Defer", TRUE))]
    /\ prev' = IF rows[processed].id # tracked THEN prev
               ELSE [seen |-> TRUE, html |-> html, status |-> last_status,
                     applied |-> ~args.dry_run,
                     same |-> /\ prev.seen /\ prev.applied
                              /\ prev.html = html /\ prev.status = last_status,
                     dry |-> args.dry_run,
                     decision |-> "Defer",
                     counted |-> "errors"]
    /\ pc' = AfterException
    /\ UNCHANGED <<pureVars, job>>
    /\ UNCHANGED <<db, now, work, args, rows, total, processed, changed, errors_403,
                   i, last_status, html, resp, log, writes, tracked>>

\* After the loop: the run report is printed.
Report ==
    /\ pc = "loop"
    /\ processed = total
    /\ pc' = "done"
    /\ UNCHANGED <<pureVars, job>>
    /\ UNCHANGED <<db, now, work, args, rows, total, processed, changed, errors,
                   errors_403, i, last_status, html, resp, log, outcome, writes, tracked, prev>>

NoOutcome == [decision |-> "none", extracted |-> FALSE, write |-> "none",
              raised |-> FALSE, slept |-> 0]
NoResult == [seen |-> FALSE, html |-> NoText, status |-> None, applied |-> FALSE,
             same |-> FALSE, dry |-> FALSE, decision |-> "none", counted |-> "none"]

\* Nothing handed to the pure functions.
Pending == [kind |-> "pending", val |-> 0]
NotParsed == [norm |-> Pending, cands |-> <<>>, vals |-> <<>>, best |-> Pending]
\* No single-product job has run.
NoJob == [n |-> 0, op |-> "none", id |-> 0, new_price |-> None, dry |-> FALSE]

NoPage == [selector |-> NoElement, meta |-> NoElement, itemprop |-> NoElement,
           priced |-> <<>>]
NotExtracted == [done |-> FALSE, tiers |-> <<>>, result |-> Pending]
PureIdle ==
    /\ text = <<>>
    /\ parsed = NotParsed
    /\ amount = 0
    /\ rounded = None
    /\ page = NoPage
    /\ extracted = NotExtracted

Init ==
    /\ \E n \in 1..NumProducts :
          db \in [1..n -> [price : InitPrices, old_price : {None}, updated_at : {0}]]
    /\ now = 0
    /\ work = 0
    /\ pc = "idle"
    /\ args = [dry_run |-> FALSE, delay |-> 0]
    /\ rows = <<>>
    /\ total = 0 /\ processed = 0 /\ changed = 0 /\ errors = 0 /\ errors_403 = 0
    /\ i = 0
    /\ last_status = None
    /\ html = NoText
    /\ resp = NoResponse
    /\ log = <<>>
    /\ outcome = NoOutcome
    /\ writes = [p \in DOMAIN db |-> 0]
    /\ tracked \in DOMAIN db
    /\ prev = NoResult
    /\ PureIdle
    /\ job = NoJob

Next ==
    \/ \E dry \in BOOLEAN, delay \in Delays : StartRun(dry, delay)
    \/ BeginProduct
    \/ \E r \in Responses : Attempt(r)
    \/ \E dbFails \in BOOLEAN : Decide(dbFails)
    \/ DecideRaises
    \/ Report

Spec == Init /\ [][Next]_vars

\* The batch is one sequential process whose blocking calls are all bounded
\* (request timeout=25, finite sleeps): a step that can be taken is taken.
SpecLive == Init /\ [][Next]_vars /\ WF_vars(Next)

\* ------------------------------------------------------ single-product jobs
\* Single-product jobs run next to the batch.
MaxJobs == 1

\* What up.get_html(url, referer, pause=1.5) can return: (html, status).
GetHtmlResults ==
    { [html |-> d, status |-> 200] : d \in Docs }
    \cup { [html |-> NoText, status |-> st] : st \in {200, 404, 403, 429, 503, None} }

\* compute_new_price_for_product raises (extract_price does; the endpoint
\* catches it and returns the product as it is).
ComputeRaises(h, status) ==
    /\ status # 404
    /\ ~(~h.empty /\ is_discontinued(h))
    /\ ~h.empty
    /\ ExtractRaises(h)

\* compute_new_price_for_product (main.py): 1 for a product that ended, None
\* when no price can be told, else the price in whole crowns.
compute_new_price_for_product(h, status) ==
    IF status = 404 THEN 1
    ELSE IF ~h.empty /\ is_discontinued(h) THEN 1
    ELSE IF h.empty THEN None
    ELSE IF extract_price(h) = None THEN None
    ELSE as_kc_int(extract_price(h))

\* The commit of refresh_product_price: old_price for a changed non-null
\* price, then price and updated_at in every case.
RefreshCommit(table, product_id, new_price, ts) ==
    [table EXCEPT ![product_id] =
        [price |-> new_price,
         old_price |-> IF @.price # None /\ @.price # new_price
                       THEN @.price ELSE @.old_price,
         updated_at |-> ts]]

\* POST /products/{product_id}/refresh-price for a product that has a url.
RefreshProductPrice(product_id, res) ==
    /\ job.n < MaxJobs
    /\ product_id \in DOMAIN db
    /\ LET new_price == IF ComputeRaises(res.html, res.status) THEN None
                         ELSE compute_new_price_for_product(res.html, res.status)
       IN /\ db' = IF new_price = None THEN db
                   ELSE RefreshCommit(db, product_id, new_price, now + 1)
          /\ now' = IF new_price = None THEN now ELSE now + 1
          /\ job' = [n |-> job.n + 1, op |-> "refresh", id |-> product_id,
                     new_price |-> new_price, dry |-> FALSE]
    /\ UNCHANGED <<work, pc, args, rows, total, processed, changed, errors,
                   errors_403, i, last_status, html, resp, log, outcome, writes,
                   tracked, prev>>
    /\ UNCHANGED pureVars

\* step3_update_one.py: new_price_int, None when the script exits before it
\* (no HTML, no price in the HTML, or extract_price raising).
Step3NewPrice(h) ==
    IF h.empty \/ ExtractRaises(h) \/ extract_price(h) = None THEN None
    ELSE as_kc_int(extract_price(h))

\* step3_update_one.py main: "UPDATE products SET price = %s WHERE id = %s".
Step3Update(table, prod_id, new_price_int) ==
    [table EXCEPT ![prod_id].price = new_price_int]

\* One run of step3_update_one.py --url <the url of prod_id> [--dry-run];
\* h is what its get_html returned (a document, or None).
Step3UpdateOne(prod_id, h, dry) ==
    /\ job.n < MaxJobs
    /\ prod_id \in DOMAIN db
    /\ LET old_price == db[prod_id].price
           new_price_int == Step3NewPrice(h)
           updates == /\ new_price_int # None
                      /\ ~SamePrice(old_price, new_price_int)
                      /\ ~dry
       IN /\ db' = IF updates THEN Step3Update(db, prod_id, new_price_int) ELSE db
          /\ job' = [n |-> job.n + 1, op |-> "step3", id |-> prod_id,
                     new_price |-> new_price_int, dry |-> dry]
    /\ UNCHANGED <<now, work, pc, args, rows, total, processed, changed, errors,
                   errors_403, i, last_status, html, resp, log, outcome, writes,
                   tracked, prev>>
    /\ UNCHANGED pureVars

\* A single-product job on any product.
SingleJob ==
    \/ \E p \in Products, res \in GetHtmlResults : RefreshProductPrice(p, res)
    \/ \E p \in Products, h \in Docs \cup {NoText}, dry \in BOOLEAN :
          Step3UpdateOne(p, h, dry)

NextJobs == SingleJob

SpecJobs == Init /\ [][NextJobs]_vars

\* The batch with single-product jobs running next to it.
NextRace == Next \/ SingleJob

SpecRace == Init /\ [][NextRace]_vars

\* ------------------------------------------------- get_html on its own
\* pause values get_html is called with.
Pauses == {0, 1, 2}

\* A caller enters get_html(url, pause=pause).
FetchCall(pause) ==
    /\ pc \in {"idle", "decide"}
    /\ args' = [dry_run |-> FALSE, delay |-> pause]
    /\ EnterGetHtml
    /\ pc' = "fetch"
    /\ UNCHANGED <<pureVars, job>>
    /\ UNCHANGED <<db, now, work, rows, total, processed, changed, errors,
                   errors_403, outcome, writes, tracked, prev>>

\* One attempt, with the requests and sleeps of the call recorded.
FetchAttempt(r) ==
    /\ AttemptCore(r)
    /\ log' = log \o AttemptEvents(r, i + 1, args.delay)
    /\ UNCHANGED <<pureVars, job>>
    /\ UNCHANGED <<db, now, work, args, rows, total, processed, changed, errors,
                   errors_403, outcome, writes, tracked, prev>>

NextFetch ==
    \/ \E pause \in Pauses : FetchCall(pause)
    \/ \E r \in Responses : FetchAttempt(r)

SpecFetch == Init /\ [][NextFetch]_vars

\* ------------------------------------------- price text functions on their own
\* Longest text tried with every combination of the characters of TextAlphabet.
MaxTextLen == 5
TextAlphabet == {"1", "5", " ", ".", ",", "-", "K"}
BoundedTexts == UNION { [1..n -> TextAlphabet] : n \in 0..MaxTextLen }

\* Texts of price elements as the shops write them.
ExampleTexts ==
    { <<"2", " ", "5", "9", "0", ",", "-">>,
      <<"1", "0", " ", "6", "9", "0", ".", "5", "0">>,
      <<"1", ".", "2", "3", "4">>,
      <<"1", ".", "2", "3">>,
      <<"2", "5", "9", "0", " ", "K", "ccaron">>,
      <<"2", " ", "5", "9", "0", " ", "K", "ccaron">>,
      <<"1", ",", "2", "3", "4", ".", "5">>,
      <<"2", ".", "5", "9", "0">>,
      <<"2", ",", "5", "9", "0">>,
      <<"2", "nbsp", "5", "9", "0">>,
      <<"1", "2", "'", "5", "9", "0", ",", "5">>,
      <<"1", "3", "9", "-", "4", "1", "9", "9", "0">>,
      <<"1", "3", "9", " ", "K", "ccaron", " ", "4", "1", "9", "9", "0", " ", "K", "ccaron">>,
      <<"4", "5">> }
Texts == BoundedTexts \cup ExampleTexts

\* The batch at rest while the functions are called on their own.
BatchIdle ==
    /\ db = <<[price |-> None, old_price |-> None, updated_at |-> 0]>>
    /\ now = 0
    /\ work = 0
    /\ pc = "idle"
    /\ args = [dry_run |-> FALSE, delay |-> 0]
    /\ rows = <<>>
    /\ total = 0 /\ processed = 0 /\ changed = 0 /\ errors = 0 /\ errors_403 = 0
    /\ i = 0
    /\ last_status = None
    /\ html = NoText
    /\ resp = NoResponse
    /\ log = <<>>
    /\ outcome = NoOutcome
    /\ writes = <<0>>
    /\ tracked = 1
    /\ prev = NoResult
    /\ job = NoJob

InitText ==
    /\ BatchIdle
    /\ text \in Texts
    /\ parsed = NotParsed
    /\ amount = 0
    /\ rounded = None
    /\ page = NoPage
    /\ extracted = NotExtracted

\* v = normalize_candidate(text)
CallNormalize ==
    /\ parsed.norm = Pending
    /\ parsed' = [parsed EXCEPT !.norm = normalize_candidate(text)]
    /\ UNCHANGED <<batchVars, text, amount, rounded, page, extracted, job>>

\* p = best_price_from_text(text), with the candidates and values it went through
CallBestPrice ==
    /\ parsed.best = Pending
    /\ parsed' = [parsed EXCEPT !.cands = find_price_candidates(text),
                                 !.vals = CandidateValues(text),
                                 !.best = best_price_from_text(text)]
    /\ UNCHANGED <<batchVars, text, amount, rounded, page, extracted, job>>

NextText == CallNormalize \/ CallBestPrice

SpecText == InitText /\ [][NextText]_vars

\* ------------------------------------------------------ as_kc_int on its own
\* Largest Decimal tried, in hundredths (every value from 0.00 up to it).
MaxAmount == 400
\* The values of the rounding examples, 10690.49 and 10690.50.
ExampleAmounts == {1069049, 1069050}
Amounts == 0..MaxAmount \cup ExampleAmounts

InitRound ==
    /\ BatchIdle
    /\ text = <<>>
    /\ parsed = NotParsed
    /\ amount \in Amounts
    /\ rounded = None
    /\ page = NoPage
    /\ extracted = NotExtracted

\* new_price = as_kc_int(dec)
CallRound ==
    /\ rounded = None
    /\ rounded' = as_kc_int(amount)
    /\ UNCHANGED <<batchVars, text, parsed, amount, page, extracted, job>>

NextRound == CallRound

SpecRound == InitRound /\ [][NextRound]_vars

\* ---------------------------------------------------- extract_price on its own
\* Most elements with "price" in their class or id on one page.
MaxElements == 2
\* Texts of the elements: no number, 5, 111, 555, and "111-5" (two numbers).
TierTexts ==
    { <<"K">>, <<"5">>, <<"1", "1", "1">>, <<"5", "5", "5">>,
      <<"1", "1", "1", "-", "5">> }
Slots == {NoElement} \cup { Element(t) : t \in TierTexts }
Pages ==
    [selector : Slots, meta : Slots, itemprop : Slots,
     priced : UNION { [1..n -> TierTexts] : n \in 0..MaxElements }]

InitExtract ==
    /\ BatchIdle
    /\ text = <<>>
    /\ parsed = NotParsed
    /\ amount = 0
    /\ rounded = None
    /\ page \in Pages
    /\ extracted = NotExtracted

\* dec = extract_price(html, selector)
CallExtract ==
    /\ ~extracted.done
    /\ extracted' = [done |-> TRUE, tiers |-> TierResults(page),
                      result |-> extract_price_of(page)]
    /\ UNCHANGED <<batchVars, text, parsed, amount, rounded, page, job>>

NextExtract == CallExtract

SpecExtract == InitExtract /\ [][NextExtract]_vars

\* ------------------------------------------------------------------ claims
\* The row of the products table the loop body is working on.
CurId == rows[processed].id
\* A Decide step: the loop body after get_html returned.
DecideStep == pc = "decide" /\ pc' = "loop"

\* C1: the batch rewrites a row only for a SetTerminal or SetPrice decision;
\* when the fetch ends with no document and a status other than 404, or the
\* document yields no price, the product is deferred, no update_price call is
\* issued and the table stays as it was.
C1_WriteOnlyOnSetDecision ==
    [][ /\ (db' # db) =>
             /\ DecideStep
             /\ outcome'.decision \in {"SetTerminal", "SetPrice"}
        /\ ( /\ DecideStep
             /\ \/ html.empty /\ last_status # 404
                \/ ~html.empty /\ ~html.discontinued /\ html.dec = None )
           => /\ db' = db
              /\ writes' = writes
              /\ outcome'.decision = "Defer" ]_vars

\* A product whose fetch ended in a server error kept its price 2.
C1_Witness ==
    /\ pc = "loop" /\ processed > 0
    /\ html.empty /\ last_status = 503
    /\ outcome.decision = "Defer" /\ outcome.write = "none"
    /\ db[CurId].price = 2 /\ db[CurId].updated_at = 0

\* C2: in every step, a row's old_price becomes the price stored before the
\* step exactly when the price changes and that price was non-null; in every
\* other case old_price stays as it was.
C2_OldPriceTracksPrice ==
    [][ \A p \in DOMAIN db :
          db'[p].old_price =
             IF db'[p].price # db[p].price /\ db[p].price # None
             THEN db[p].price
             ELSE db[p].old_price ]_vars

\* Price 2, extracted 2.50 -> 3: the row holds price 3, old_price 2.
C2_Witness ==
    /\ pc = "loop" /\ processed > 0
    /\ outcome.decision = "SetPrice" /\ outcome.write = "ok"
    /\ rows[processed].price = 2
    /\ db[CurId].price = 3 /\ db[CurId].old_price = 2

\* C3: a fetched document holding the marker is decided SetTerminal, or
\* NoChange when the price is already the sentinel, never SetPrice, and
\* extract_price is not run on it.
C3_TerminalPriority ==
    [][ (DecideStep /\ ~html.empty /\ html.discontinued) =>
          /\ outcome'.decision =
                IF rows[processed].price = TerminalPrice THEN "NoChange" ELSE "SetTerminal"
          /\ ~outcome'.extracted
          /\ db'[CurId].price \in {db[CurId].price, TerminalPrice} ]_vars

\* A marked document with price text 2.50 set the price 2 to the sentinel.
C3_Witness ==
    /\ pc = "loop" /\ processed > 0
    /\ ~html.empty /\ html.discontinued /\ html.dec = 250
    /\ outcome.decision = "SetTerminal" /\ outcome.write = "ok"
    /\ rows[processed].price = 2
    /\ db[CurId].price = TerminalPrice

\* C4: on status 404 the decision is NoChange, with no write, when the
\* stored price is the sentinel, and SetTerminal otherwise, whatever the
\* body of the response; a live run then issues one update_price call, which
\* sets the price to 1 when it succeeds.
C4_NotFoundSetsSentinel ==
    [][ (DecideStep /\ last_status = 404) =>
          IF rows[processed].price = TerminalPrice
          THEN /\ outcome'.decision = "NoChange"
               /\ db' = db
               /\ writes' = writes
          ELSE /\ outcome'.decision = "SetTerminal"
               /\ ~args.dry_run => writes'[CurId] = writes[CurId] + 1
               /\ outcome'.write = "ok" => db'[CurId].price = TerminalPrice
               /\ (~args.dry_run /\ outcome'.write # "failed")
                     => db'[CurId].price = TerminalPrice ]_vars

\* A 404 whose body carries price text 2.50 turned the price 2 into 1.
C4_Witness ==
    /\ pc = "loop" /\ processed > 0
    /\ last_status = 404 /\ resp.status = 404 /\ ~resp.text.empty
    /\ outcome.decision = "SetTerminal" /\ outcome.write = "ok"
    /\ rows[processed].price = 2
    /\ db[CurId].price = TerminalPrice /\ db[CurId].old_price = 2

\* C5: when a product's fetch result is the one of the previous run, and that
\* run was live and its write (if any) succeeded, the run decides NoChange or
\* Defer, issues no update_price call and leaves price, old_price and
\* updated_at of every row as they were.
C5_SecondRunIdempotent ==
    [][ ( /\ DecideStep
          /\ CurId = tracked
          /\ prev.seen /\ prev.applied
          /\ prev.html = html /\ prev.status = last_status )
        => /\ db' = db
           /\ now' = now
           /\ writes' = writes
           /\ outcome'.decision \in {"NoChange", "Defer"} ]_vars

\* A row written by one run met the same document in the next run.
C5_Witness ==
    /\ pc = "loop" /\ processed > 0 /\ CurId = tracked
    /\ prev.same /\ ~html.empty
    /\ db[tracked].updated_at > 0
    /\ db[tracked].price = NewPrice(html, last_status)
    /\ outcome.decision = "NoChange"

\* C6: get_html makes at most `retries` attempts; when the last attempt was
\* neither a 200 with a body nor a 404 it returns no document, after all the
\* attempts, with the status of that attempt; for a 503 outcome the batch
\* defers the product, counts an error and leaves the table unchanged.
C6_BoundedRetriesStatus ==
    /\ [](i <= Retries)
    /\ []( ( /\ pc = "decide"
              /\ ~( /\ resp.kind = "http"
                     /\ \/ resp.status = 404
                        \/ resp.status = 200 /\ ~resp.text.empty ) )
            => /\ html.empty
               /\ i = Retries
               /\ last_status = (IF resp.kind = "http" THEN resp.status ELSE None) )
    /\ [][ (DecideStep /\ html.empty /\ last_status = 503) =>
             /\ db' = db
             /\ outcome'.decision = "Defer"
             /\ errors' = errors + 1 ]_vars

\* All three attempts failed, the last with 503: price 2 is kept.
C6_Witness ==
    /\ pc = "loop" /\ processed > 0
    /\ i = Retries /\ resp.status = 503 /\ last_status = 503 /\ html.empty
    /\ outcome.decision = "Defer" /\ errors > 0
    /\ db[CurId].price = 2 /\ db[CurId].updated_at = 0

\* C10: in a dry run no step changes the table or issues an update_price
\* call, whatever is fetched and decided.
C10_DryRunWritesNothing ==
    [][ (pc \in {"loop", "fetch", "decide"} /\ args.dry_run) =>
          /\ db' = db
          /\ now' = now
          /\ writes' = writes
          /\ \A p \in DOMAIN db : writes[p] = 0 ]_vars

\* A dry run ended having decided SetPrice for a row that still holds 2.
C10_Witness ==
    /\ pc = "done" /\ args.dry_run /\ processed = total
    /\ outcome.decision = "SetPrice" /\ outcome.write = "none"
    /\ html.dec = 250
    /\ db[CurId].price = 2 /\ db[CurId].updated_at = 0

\* The loop body of one product, however it is left.
BodyStep == pc = "decide" /\ pc' # "decide"

\* C11: for the same product and the same fetch result, a live run that
\* follows a dry run takes the decision the dry run took, and the dry run
\* counted the product as changed exactly when the live run changes its row.
C11_DryRunReportsLiveRun ==
    [][ ( /\ BodyStep
          /\ CurId = tracked
          /\ prev.seen /\ prev.dry /\ ~args.dry_run
          /\ prev.html = html /\ prev.status = last_status )
        => /\ outcome'.decision = prev.decision
           /\ (prev.counted = "changed") <=> (db'[CurId] # db[CurId]) ]_vars

\* C12: an exception in the loop body (extract_price or update_price raising)
\* adds one to errors, leaves changed and the table alone, and the loop goes
\* on; every run that was started ends with its report, processed = total.
C12_ExceptionsCountedRunContinues ==
    /\ [][ (BodyStep /\ outcome'.raised) =>
             /\ errors' = errors + 1
             /\ changed' = changed
             /\ errors_403' = errors_403
             /\ db' = db
             /\ pc' = "loop" ]_vars
    /\ [](pc = "done" => processed = total)
    /\ \A n \in 1..NumProducts :
          (pc = "loop" /\ total = n /\ processed = 0)
              ~> (pc = "done" /\ total = n /\ processed = n)

\* Two products: the UPDATE of the first failed, the second was processed and
\* the report was reached.
C12_Witness ==
    /\ pc = "done" /\ total = 2 /\ processed = 2
    /\ writes[1] = 1 /\ db[1].updated_at = 0
    /\ errors >= 1 /\ changed = 0

\* C13: a product gets at most one update_price call per run, and gets it
\* exactly when its decision is SetTerminal or SetPrice in a run that is not
\* a dry run; updated_at of a row changes only in the step of that call.
C13_OneWritePerProduct ==
    /\ [](\A p \in DOMAIN db : writes[p] <= 1)
    /\ [][ BodyStep =>
             writes' = IF outcome'.decision \in {"SetTerminal", "SetPrice"}
                          /\ ~args.dry_run
                       THEN [writes EXCEPT ![CurId] = @ + 1]
                       ELSE writes ]_vars
    /\ [][ \A p \in DOMAIN db :
             db'[p].updated_at # db[p].updated_at =>
                 /\ BodyStep
                 /\ p = CurId
                 /\ writes'[p] = writes[p] + 1
                 /\ outcome'.decision \in {"SetTerminal", "SetPrice"} ]_vars

\* Two products: the first was written once, the second was left unchanged.
C13_Witness ==
    /\ pc = "done" /\ total = 2 /\ processed = 2
    /\ writes = <<1, 0>>
    /\ outcome.decision = "NoChange"
    /\ db[1].updated_at > 0 /\ db[2].updated_at = 0

\* C14: the rows are processed in ascending id order, one at a time: a
\* product is begun only when the loop body of the one before is over, a
\* request is made only for the current product, and a row is written only
\* by the loop body of its own product, after get_html made its requests.
C14_SequentialAscending ==
    /\ [](\A k \in 1..(Len(rows) - 1) : rows[k].id < rows[k + 1].id)
    /\ [](pc \in {"fetch", "decide"} => processed \in 1..total)
    /\ [](\A k \in 1..Len(rows) :
             (k > processed \/ (k = processed /\ pc \in {"fetch", "decide"}))
                 => writes[rows[k].id] = 0)
    /\ [][ processed' = processed + 1 => (pc = "loop" /\ pc' = "fetch" /\ i' = 0) ]_vars
    /\ [][ i' = i + 1 => (pc = "fetch" /\ processed' = processed) ]_vars
    /\ [][ \A p \in DOMAIN db :
             db'[p] # db[p] => (pc = "decide" /\ p = CurId /\ i >= 1) ]_vars

\* The first product was fetched and written; the second is being fetched.
C14_Witness ==
    /\ pc = "fetch" /\ processed = 2 /\ i = 1
    /\ rows[1].id = 1 /\ rows[2].id = 2
    /\ writes = <<1, 0>> /\ db[1].updated_at > 0

\* C15: however the loop body of a product is left, time.sleep(args.delay)
\* was called exactly once on the way out, before the next product is begun.
C15_OneSleepBetweenProducts ==
    /\ [][ BodyStep => outcome'.slept = 1 ]_vars
    /\ [][ (processed' = processed + 1 /\ processed >= 1) => outcome.slept = 1 ]_vars

\* The second product is begun after the first ended in a caught exception.
C15_Witness ==
    /\ pc = "fetch" /\ processed = 2 /\ i = 0
    /\ outcome.raised /\ outcome.slept = 1

\* C22: a product whose fetch ends without a document after all the retries,
\* the last status being 403 or 429, adds one to the blocked counter
\* (errors_403) and nothing to errors.
C22_BlockedCountedAsBlocked ==
    [][ ( /\ BodyStep
          /\ html.empty /\ i = Retries
          /\ last_status \in {403, 429} )
        => /\ errors_403' = errors_403 + 1
           /\ errors' = errors ]_vars

\* C23: a step that changes a row is the loop body of that row's product, and
\* it sets price, updated_at = NOW() and, for a non-null previous price,
\* old_price together; whenever the run is stopped every row is either as it
\* was loaded or fully written, and no row changes outside its own loop body.
C23_WritesAreAtomic ==
    /\ [][ \A p \in DOMAIN db :
             db'[p] # db[p] =>
                 /\ BodyStep /\ p = CurId
                 /\ db'[p].price = NewPrice(html, last_status)
                 /\ db'[p].updated_at = now' /\ now' = now + 1
                 /\ db'[p].old_price =
                        IF db[p].price # None THEN db[p].price ELSE db[p].old_price
           ]_vars
    /\ [](\A p \in DOMAIN db :
             /\ db[p].updated_at <= now
             /\ db[p].updated_at = 0 => db[p].old_price = None
             /\ db[p].updated_at > 0 => db[p].price # None)

\* Stopped after the first of two products: its row has the new price, the
\* old one and the time of the write; the second row is untouched.
C23_Witness ==
    /\ pc = "loop" /\ processed = 1 /\ total = 2
    /\ db[1].price = 3 /\ db[1].old_price = 2
    /\ db[1].updated_at = now /\ now > 0
    /\ db[2].updated_at = 0 /\ db[2].old_price = None

\* The sum of the three outcome counters.
Booked == changed + errors + errors_403

\* C28: within a run processed counts the products started, a product adds
\* at most one to exactly one of changed, errors and errors_403, no counter
\* decreases, and changed + errors + errors_403 <= processed <= total.
C28_CountersAdditive ==
    /\ [](Booked <= processed /\ processed <= total)
    /\ [](pc \in {"fetch", "decide"} => Booked <= processed - 1)
    /\ [][ BodyStep =>
             /\ Booked' - Booked \in {0, 1}
             /\ changed' >= changed /\ errors' >= errors
             /\ errors_403' >= errors_403
             /\ processed' = processed ]_vars
    /\ [][ (pc' = "loop" /\ pc \in {"idle", "done"}) =>
             (processed' = 0 /\ Booked' = 0 /\ total' = Len(rows')) ]_vars
    /\ [][ ~(pc' = "loop" /\ pc \in {"idle", "done"}) =>
             /\ changed' >= changed /\ errors' >= errors
             /\ errors_403' >= errors_403
             /\ processed' - processed = work' - work
             /\ processed' - processed \in {0, 1}
             /\ (processed' # processed => Booked' = Booked) ]_vars

\* A run of two products ended: one was changed, one was blocked with 403.
C28_Witness ==
    /\ pc = "done" /\ total = 2 /\ processed = 2
    /\ changed = 1 /\ errors_403 = 1 /\ errors = 0

\* C29: a product that was set terminal by its last run and now yields a real
\* price other than 1 does not get the sentinel 1 as its old_price.
C29_OldPriceNeverSentinel ==
    [][ ( /\ BodyStep
          /\ CurId = tracked
          /\ prev.seen /\ prev.applied /\ prev.decision = "SetTerminal"
          /\ db[CurId].old_price # TerminalPrice
          /\ outcome'.decision = "SetPrice"
          /\ NewPrice(html, last_status) # TerminalPrice )
        => db'[CurId].old_price # TerminalPrice ]_vars

\* ------------------------------------------------ claims on get_html alone
\* The requests of the current call, in order.
Requests == SelectSeq(log, LAMBDA e : e.ev = "req")
IsSleep(k) == k \in 1..Len(log) /\ log[k].ev = "sleep"

\* C7: a 404 on any attempt is the last event of the call: get_html has
\* returned (None, 404), with no sleep and no request after it.
C7_NotFoundEndsFetch ==
    \A k \in 1..Len(log) :
        (log[k].ev = "req" /\ log[k].v = 404) =>
            /\ k = Len(log)
            /\ pc = "decide"
            /\ html.empty /\ last_status = 404
            /\ i = log[k].n

\* A 404 on the second attempt, after a 503 and its backoff.
C7_Witness ==
    /\ pc = "decide" /\ Len(log) = 3
    /\ log[1] = [ev |-> "req", n |-> 1, v |-> 503]
    /\ log[2].ev = "sleep"
    /\ log[3] = [ev |-> "req", n |-> 2, v |-> 404]

\* C8: attempts are numbered from 1; a 403 or 429 on attempt n is followed at
\* once by a sleep of pause * n; the sleeps of one call strictly increase when
\* pause > 0; and when every attempt got 403 or 429 get_html returns no
\* document with the status of the last attempt.
C8_BlockedBackoffGrows ==
    /\ \A k \in 1..Len(Requests) : Requests[k].n = k
    /\ \A k \in 1..Len(log) :
          (log[k].ev = "req" /\ log[k].v \in {403, 429}) =>
              /\ k < Len(log)
              /\ log[k + 1] = [ev |-> "sleep", n |-> log[k].n, v |-> args.delay * log[k].n]
    /\ args.delay > 0 =>
          \A j, k \in 1..Len(log) :
              (j < k /\ IsSleep(j) /\ IsSleep(k)) => log[j].v < log[k].v
    /\ ( /\ pc = "decide"
          /\ Requests # <<>>
          /\ \A k \in 1..Len(Requests) : Requests[k].v \in {403, 429} )
       => /\ html.empty
          /\ Len(Requests) = Retries
          /\ last_status = Requests[Len(Requests)].v

\* 403, 429, 403 with pause 2: sleeps of 2 and 4 between the attempts, and
\* (None, 403) is returned.
C8_Witness ==
    /\ pc = "decide" /\ args.delay = 2 /\ Len(log) = 6
    /\ log[1] = [ev |-> "req", n |-> 1, v |-> 403]
    /\ log[2] = [ev |-> "sleep", n |-> 1, v |-> 2]
    /\ log[3] = [ev |-> "req", n |-> 2, v |-> 429]
    /\ log[4] = [ev |-> "sleep", n |-> 2, v |-> 4]
    /\ log[5] = [ev |-> "req", n |-> 3, v |-> 403]
    /\ html.empty /\ last_status = 403

\* C9: a backoff delay is taken only when another attempt follows: when
\* get_html has returned, the last thing it did was a request (or a sleep of
\* zero seconds), never a backoff delay.
C9_NoSleepBeforeReturn ==
    (pc = "decide" /\ log # <<>>) =>
        \/ log[Len(log)].ev = "req"
        \/ log[Len(log)].v = 0

\* --------------------------------------- claims on the price text functions
\* A token of digits and separators, without outer whitespace.
TokenChars == Digits \cup {" ", ".", ",", "'", "nbsp"}
IsToken(t) ==
    /\ t # <<>>
    /\ \A k \in 1..Len(t) : t[k] \in TokenChars
    /\ t[1] \notin {" ", "nbsp"}
    /\ t[Len(t)] \notin {" ", "nbsp"}

\* The digits of s, in their order.
DigitsOf(s) == SelectSeq(s, LAMBDA c : c \in Digits)

\* One or two digits after a decimal separator, as hundredths.
Hundredths(ds) == IF Len(ds) = 1 THEN 10 * DigitsValue(ds) ELSE DigitsValue(ds)

\* C16: on a token of digits and separators, normalize_candidate looks only at
\* the number of characters after the rightmost dot or comma. With 1 or 2 it
\* is the decimal separator: a value returned is digits-before "." digits-after,
\* and one is returned when there are digits and no comma before it. With any
\* other number, or with no dot or comma, the result is the integer made of
\* all the digits. "2 590,-" gives 2590, "10 690.50" gives 10690.5, "1.234"
\* gives 1234 and "1.23" gives 1.23.
C16_SeparatorRoleByTail ==
    /\ (parsed.norm # Pending /\ IsToken(text)) =>
          LET seps == { k \in 1..Len(text) : text[k] \in {".", ","} }
              p == IF seps = {} THEN 0
                   ELSE CHOOSE k \in seps : \A m \in seps : m <= k
              after == Len(text) - p
              before == SubSeq(text, 1, p - 1)
          IN  IF p # 0 /\ after \in {1, 2}
              THEN /\ parsed.norm.kind = "value" =>
                         parsed.norm.val =
                             100 * DigitsValue(DigitsOf(before))
                             + Hundredths(DigitsOf(SubSeq(text, p + 1, Len(text))))
                   /\ ( DigitsOf(before) # <<>>
                        /\ \A k \in 1..Len(before) : before[k] # "," )
                          => parsed.norm.kind = "value"
              ELSE parsed.norm =
                       IF DigitsOf(text) = <<>> THEN NoneResult
                       ELSE Value(100 * DigitsValue(DigitsOf(text)))
    /\ parsed.norm # Pending =>
          /\ text = <<"2", " ", "5", "9", "0", ",", "-">> => parsed.norm = Value(259000)
          /\ text = <<"1", "0", " ", "6", "9", "0", ".", "5", "0">>
                => parsed.norm = Value(1069050)
          /\ text = <<"1", ".", "2", "3", "4">> => parsed.norm = Value(123400)
          /\ text = <<"1", ".", "2", "3">> => parsed.norm = Value(123)

\* "10 690.50" was normalized to 10690.5.
C16_Witness ==
    /\ text = <<"1", "0", " ", "6", "9", "0", ".", "5", "0">>
    /\ parsed.norm = Value(1069050)

\* C17: normalize_candidate returns a Decimal or None for every text; it
\* never raises.
C17_NormalizeNeverRaises == parsed.norm.kind # "raise"

\* One to three digits, a dot or a comma, three digits.
IsGroupedInteger(t) ==
    /\ Len(t) \in 5..7
    /\ t[Len(t) - 3] \in {".", ","}
    /\ \A k \in 1..Len(t) : k # Len(t) - 3 => t[k] \in Digits

\* C18: for a text that is one integer grouped with a dot or a comma before
\* its last three digits, best_price_from_text gives that integer, which is
\* also what normalize_candidate gives for the text.
C18_GroupedIntegerIsBest ==
    (IsGroupedInteger(text) /\ parsed.norm # Pending /\ parsed.best # Pending) =>
        /\ parsed.best = Value(100 * DigitsValue(DigitsOf(text)))
        /\ parsed.best = parsed.norm

\* C20: best_price_from_text returns None exactly when no candidate has a
\* value; else the largest value that is at least 100 when there is one, else
\* the largest value. Values {139, 41990} give 41990 and {45} gives 45.
C20_BestOfCandidates ==
    parsed.best # Pending =>
        LET all == { parsed.vals[k] : k \in 1..Len(parsed.vals) }
            big == { v \in all : v >= 100 * 100 }
            Max(S) == CHOOSE v \in S : \A w \in S : w <= v
        IN  /\ parsed.best =
                  IF all = {} THEN NoneResult
                  ELSE IF big # {} THEN Value(Max(big)) ELSE Value(Max(all))
            /\ all = {13900, 4199000} => parsed.best = Value(4199000)
            /\ all = {4500} => parsed.best = Value(4500)

\* "139 Kc 41990 Kc": the instalment 139 and the price 41990, 41990 returned.
C20_Witness ==
    /\ Len(text) = 15
    /\ parsed.vals = <<13900, 4199000>>
    /\ parsed.best = Value(4199000)

\* ------------------------------------------------------ claims on as_kc_int
\* C19: as_kc_int gives the integer part of a non-negative Decimal whose
\* fraction is below 0.5 and the integer part plus one otherwise, for even and
\* for odd integer parts: 10690.49 gives 10690 and 10690.50 gives 10691.
C19_RoundsHalfUp ==
    rounded # None =>
        /\ rounded = IF amount % 100 < 50 THEN amount \div 100
                     ELSE (amount \div 100) + 1
        /\ amount = 1069049 => rounded = 10690
        /\ amount = 1069050 => rounded = 10691

\* 10690.50, whose integer part is even, was rounded up to 10691.
C19_Witness == amount = 1069050 /\ rounded = 10691

\* C27: in one get_html call, every request that is followed by anything is
\* followed by a sleep of pause times the number of that attempt, never
\* directly by the next request.
C27_BackoffBetweenAttempts ==
    \A k \in 1..(Len(log) - 1) :
        log[k].ev = "req" =>
            /\ log[k + 1].ev = "sleep"
            /\ log[k + 1].v = args.delay * log[k].n

\* ------------------------------------------------------ claims on extract_price
\* C21: extract_price returns the value of the first of the tiers (selector,
\* meta, itemprop, class / id fallback) that yields one, whatever the later
\* tiers yield, and None exactly when no tier yields a value.
C21_FirstTierWins ==
    extracted.done =>
        /\ \A k \in 1..4 :
              ( /\ extracted.tiers[k].kind = "value"
                /\ \A m \in 1..(k - 1) : extracted.tiers[m].kind = "none" )
                  => extracted.result = extracted.tiers[k]
        /\ extracted.result.kind = "none"
              <=> \A k \in 1..4 : extracted.tiers[k].kind = "none"
        /\ extracted.tiers[1] = TierPrice(page.selector)
        /\ extracted.tiers[2] = TierPrice(page.meta)
        /\ extracted.tiers[3] = TierPrice(page.itemprop)

\* No selector element, the meta tag holds 111, the fallback elements 555:
\* 111 is returned.
C21_Witness ==
    /\ extracted.done
    /\ extracted.tiers[1].kind = "none"
    /\ extracted.tiers[2] = Value(11100)
    /\ extracted.tiers[4] = Value(55500)
    /\ extracted.result = Value(11100)

\* The values of the candidates of all the texts together.
RECURSIVE UnionValues(_)
UnionValues(texts) ==
    IF texts = <<>> THEN {}
    ELSE { CandidateValues(Head(texts))[k] :
             k \in 1..Len(CandidateValues(Head(texts))) }
         \cup UnionValues(Tail(texts))

\* C26: the fallback tier's value, the maximum over the elements of each
\* element's best price, is what the rule "largest value of at least 100 if
\* there is one, else the largest value" gives on the values of the candidates
\* of all the elements together (None when there is none).
C26_FallbackIsBestOfUnion ==
    extracted.done =>
        LET all == UnionValues(page.priced)
            big == { v \in all : v >= 100 * 100 }
            Max(S) == CHOOSE v \in S : \A w \in S : w <= v
        IN  extracted.tiers[4] =
                IF all = {} THEN NoneResult
                ELSE IF big # {} THEN Value(Max(big)) ELSE Value(Max(all))

\* Two elements, "555" and then "111-5": 555 is the fallback tier's value.
C26_Witness ==
    /\ extracted.done
    /\ page.priced = << <<"5", "5", "5">>, <<"1", "1", "1", "-", "5">> >>
    /\ extracted.tiers[4] = Value(55500)

\* ------------------------------------------- claims on the single-product jobs
\* A step of the refresh endpoint / of step3_update_one.
RefreshStep == job'.n = job.n + 1 /\ job'.op = "refresh"
Step3Step == job'.n = job.n + 1 /\ job'.op = "step3"

\* C24: refresh_product_price leaves the row, updated_at included, as it is
\* when the price it computed equals the stored price, and changes a row only
\* when it computed a price (terminal or real) that differs from the stored one.
C24_RefreshNoChangeLeavesRow ==
    [][ RefreshStep =>
          /\ (job'.new_price # None /\ db[job'.id].price = job'.new_price)
                => db'[job'.id] = db[job'.id]
          /\ db' # db =>
                (job'.new_price # None /\ db[job'.id].price # job'.new_price) ]_vars

\* C25: when step3_update_one extracted a price that differs from a non-null
\* stored price (and is not a dry run), the row becomes what update_price of
\* the batch makes of it: new price, old_price = previous price, updated_at.
C25_Step3WritesLikeBatch ==
    [][ ( /\ Step3Step
          /\ ~job'.dry
          /\ job'.new_price # None
          /\ db[job'.id].price # None
          /\ db[job'.id].price # job'.new_price )
        => \E ts \in {now + 1} :
              db' = update_price(db, job'.id, job'.new_price, db[job'.id].price, ts)
      ]_vars

\* C30: when a single-product job changed the price of a row after the batch
\* loaded its rows, the batch's write to that row sets old_price to the price
\* the row held just before the write, and a NoChange of the batch means the
\* computed price equals the price the row holds.
C30_BatchUsesCurrentPrice ==
    [][ ( /\ BodyStep
          /\ rows[processed].price # db[CurId].price )
        => /\ db'[CurId] # db[CurId] =>
                 db'[CurId].old_price =
                     IF db[CurId].price # None THEN db[CurId].price
                     ELSE db[CurId].old_price
           /\ outcome'.decision = "NoChange" =>
                 db[CurId].price = NewPrice(html, last_status) ]_vars

====
